---- MODULE Spec2Model ----
(***************************************************************************)
(* The extension's Proxy (apps/extension/src/provider/Proxy.ts): the       *)
(* message listener that Proxy.start registers on the page's window, the   *)
(* admission check against the approved-origins store, the dispatch to the *)
(* Namada capability object and the Response posted back on the window.    *)
(*                                                                         *)
(* A JavaScript value is a string naming it; an object is a record of its  *)
(* own properties, a primitive or null body is [prim |-> ...].  Reading a  *)
(* property an object does not have gives "undefined".                     *)
(***************************************************************************)
EXTENDS Integers, Sequences, FiniteSets, TLC

\* Number of messages the page (or a frame in it) posts on the window.
MaxMsgs == 2

\* Number of calls of Proxy.start, and of messages the page posts, where
\* Proxy.start is called more than once.
MaxStarts == 2
MaxMsgsStart == 1

\* Correlation ids the page uses.
Ids == {"1", "2"}

\* window.location.origin of the page the listener runs in, and the origins
\* a message event can carry.
WindowOrigin == "https://dapp.example"
Origins == {WindowOrigin, "https://frame.example"}

\* The origins the user approves or revokes while the page is live.
Approvable == {WindowOrigin}

\* Method names a Request can carry.
Methods == {"connect", "isConnected", "signTx", "doesNotExist", "_version"}

\* Values a capability method resolves to or raises: undefined, plain data,
\* and a value the structured clone algorithm cannot serialise (a function).
Undefined == "undefined"
Values == {Undefined, "data", "function"}

VARIABLES
  store,      \* the approved-origins store: [has, val], val being the stored list
  listeners,  \* number of listeners Proxy.start has registered on the window
  events,     \* every message event queued on the window, in posting order
  next,       \* index in events of the event being (or next to be) delivered
  runs,       \* runs[i][l]: the invocation of listener l for events[i]
  posted,     \* every message window.postMessage accepted from the Proxy
  invoked     \* <<i, l>>: invocation l of event i called namada[method](args)

vars == <<store, listeners, events, next, runs, posted, invoked>>

----------------------------------------------------------------------------
(* JavaScript helpers *)

\* message.k
Prop(message, k) == IF k \in DOMAIN message THEN message[k] ELSE Undefined

\* !message
Falsy(message) == "prim" \in DOMAIN message /\ message.prim \in {"null", Undefined}

\* The structured clone that window.postMessage performs throws a
\* DataCloneError on a function.
Cloneable(v) == v # "function"
DataCloneError == "DataCloneError"

----------------------------------------------------------------------------
(* The capability object *)

\* typeof namada[method]: the operations of the Namada class are functions,
\* its fields are not, any other name is undefined.
NamadaTypeof(method) ==
  CASE method \in {"connect", "isConnected", "signTx"} -> "function"
    [] method = "_version" -> "string"
    [] OTHER -> Undefined

----------------------------------------------------------------------------
(* Proxy.start: the listener's code *)

\* line 18: the message is not handled
IgnoredMutant(message) == Falsy(message)
Ignored(message) == Falsy(message) \/ Prop(message, "type") # "request"

\* line 24 (negated): the two methods that skip the admission check
Bootstrap(method) == method = "connect" \/ method = "isConnected"

\* lines 25-26: (await approvedOriginsStore.get(APPROVED_ORIGINS_KEY)) || []
ApprovedOriginsFailOpen(s) == IF s.has THEN s.val ELSE Origins
ApprovedOriginsMutant(s) ==
  (IF s.has THEN s.val ELSE {}) \cup
  { events[i].origin : i \in { k \in 1..Len(runs) :
      \E l \in 1..Len(runs[k]) : runs[k][l].found = "yes" } }
ApprovedOrigins(s) == IF s.has THEN s.val ELSE {}

\* lines 25-26: the store after the lookup; get only reads, and the [] that
\* stands for a missing value is not written back
StoreAfterGetMutant(s) == [has |-> TRUE, val |-> IF s.has THEN s.val ELSE {}]
StoreAfterGet(s) == s

\* line 27: approvedOrigins.includes(e.origin)
IncludesMutant(approvedOrigins, origin) == TRUE
Includes(approvedOrigins, origin) == origin \in approvedOrigins

\* line 34: new Error(`${message.method} not found!`)
NotFoundError(message) == Prop(message, "method") \o " not found!"

\* lines 38-44
SuccessResponseAsRequest(message, result) ==
  [type |-> "request", id |-> Prop(message, "id"), result |-> [return |-> result]]
SuccessResponseMutant(message, result) ==
  [type |-> "response", id |-> Prop(message, "id"), result |-> [return |-> Undefined]]
SuccessResponse(message, result) ==
  [type |-> "response", id |-> Prop(message, "id"), result |-> [return |-> result]]

\* lines 48-54
ErrorResponseMutant(message, e) ==
  [type |-> "response", id |-> Prop(message, "id"),
   result |-> [return |-> Undefined, error |-> e]]
ErrorResponse(message, e) ==
  [type |-> "response", id |-> Prop(message, "id"), result |-> [error |-> e]]

\* A listener invocation: where it stands (pc), whether it called
\* approvedOriginsStore.get (read), whether the list it got held the event's
\* origin (found; "failed" when get rejected), and how the capability call
\* settled (settled, value).
NewRun ==
  [pc |-> "start", read |-> FALSE, found |-> "unknown", settled |-> "none",
   value |-> Undefined]

\* What a synchronous stretch of the listener does: the invocation's new
\* state, the messages it hands to Proxy.postMessage that are accepted, and
\* whether it calls the capability object.
Effect(run, out, call) == [run |-> run, out |-> out, call |-> call]

\* lines 47-57: the catch block.  A postMessage that throws here leaves the
\* async listener with a rejected promise.
Catch(message, r, e) ==
  IF Cloneable(e)
    THEN Effect([r EXCEPT !.pc = "done"], <<ErrorResponse(message, e)>>, FALSE)
    ELSE Effect([r EXCEPT !.pc = "crashed"], <<>>, FALSE)

\* lines 32-37: the try block up to the await of the capability call
DispatchMutant(message, r) == Effect([r EXCEPT !.pc = "calling"], <<>>, TRUE)
Dispatch(message, r) ==
  IF NamadaTypeof(Prop(message, "method")) # "function"
    THEN Catch(message, r, NotFoundError(message))
    ELSE Effect([r EXCEPT !.pc = "calling"], <<>>, TRUE)

\* lines 16-26: from the event to the first await
Receive(e, r) ==
  IF Ignored(e.data)
    THEN Effect([r EXCEPT !.pc = "ignored"], <<>>, FALSE)
    ELSE IF ~Bootstrap(Prop(e.data, "method"))
      THEN Effect([r EXCEPT !.pc = "lookup", !.read = TRUE], <<>>, FALSE)
      ELSE Dispatch(e.data, r)

\* What the lookup found, noted in the invocation.
Found(e, r, approvedOrigins) ==
  [r EXCEPT !.found = IF e.origin \in approvedOrigins THEN "yes" ELSE "no"]

\* lines 25-32: approvedOriginsStore.get resolved with approvedOrigins
AdmitMutant(e, r, approvedOrigins) ==
  IF ~Includes(approvedOrigins, e.origin)
    THEN Effect([Found(e, r, approvedOrigins) EXCEPT !.pc = "dropped"],
                <<ErrorResponse(e.data, "not approved")>>, FALSE)
    ELSE Dispatch(e.data, Found(e, r, approvedOrigins))
Admit(e, r, approvedOrigins) ==
  IF ~Includes(approvedOrigins, e.origin)
    THEN Effect([Found(e, r, approvedOrigins) EXCEPT !.pc = "dropped"], <<>>, FALSE)
    ELSE Dispatch(e.data, Found(e, r, approvedOrigins))

\* lines 25-26: approvedOriginsStore.get rejected; the await is outside the
\* try block, so the exception leaves the listener
LookupFailedMutant(e, r) == Catch(e.data, [r EXCEPT !.found = "failed"], "store error")
LookupFailed(e, r) ==
  Effect([r EXCEPT !.pc = "lookupFailed", !.found = "failed"], <<>>, FALSE)

\* lines 37-46: the capability call resolved with result; a postMessage
\* that throws is caught at line 47
ResolvedMutant(message, r, result) ==
  Effect([r EXCEPT !.pc = "done", !.settled = "resolved", !.value = result],
         <<SuccessResponse(message, result), ErrorResponse(message, DataCloneError)>>,
         FALSE)
Resolved(message, r, result) ==
  LET s == [r EXCEPT !.settled = "resolved", !.value = result] IN
  IF Cloneable(result)
    THEN Effect([s EXCEPT !.pc = "done"], <<SuccessResponse(message, result)>>, FALSE)
    ELSE Catch(message, s, DataCloneError)

\* lines 37, 47: the capability call threw or rejected with e
RejectedMutant(message, r, e) ==
  Catch(message, [r EXCEPT !.settled = "rejected", !.value = e], "Error: " \o e)
Rejected(message, r, e) ==
  Catch(message, [r EXCEPT !.settled = "rejected", !.value = e], e)

----------------------------------------------------------------------------
(* The window *)

\* lines 65-67: Proxy.postMessage queues the message on the window itself,
\* for the window's own origin
PostingMutant(message, i, l) ==
  [msg |-> message, targetOrigin |-> events[i].origin, by |-> <<i, l>>]
Posting(message, i, l) ==
  [msg |-> message, targetOrigin |-> WindowOrigin, by |-> <<i, l>>]
MessageEvent(message) ==
  [data |-> message, origin |-> WindowOrigin, from |-> "proxy"]

\* Invocation l of events[i] makes the step eff.
Apply(i, l, eff) ==
  /\ runs' = [k \in 1..(Len(runs) + Len(eff.out)) |->
               IF k > Len(runs) THEN <<>>
               ELSE IF k # i THEN runs[k]
               ELSE IF l > Len(runs[i]) THEN Append(runs[i], eff.run)
               ELSE [runs[i] EXCEPT ![l] = eff.run]]
  /\ events' = events \o [k \in 1..Len(eff.out) |-> MessageEvent(eff.out[k])]
  /\ posted' = posted \o [k \in 1..Len(eff.out) |-> Posting(eff.out[k], i, l)]
  /\ invoked' = IF eff.call THEN invoked \cup {<<i, l>>} ELSE invoked

\* A delivery has reached some listeners and not yet the others.
MidDelivery == next <= Len(events) /\ Len(runs[next]) > 0

\* What the page can post: no body, an object without type, an
\* object of another type, and Requests.
Malformed ==
  { [prim |-> "null"], [prim |-> Undefined],
    [id |-> "1", method |-> "signTx"],
    [type |-> "other", id |-> "1", method |-> "connect"] }
Requests == { [type |-> "request", id |-> i, method |-> m] : i \in Ids, m \in Methods }

PagePosts == Cardinality({ i \in 1..Len(events) : events[i].from = "page" })

----------------------------------------------------------------------------
Init ==
  /\ store = [has |-> FALSE, val |-> {}]
  /\ listeners = 1
  /\ events = <<>>
  /\ next = 1
  /\ runs = <<>>
  /\ posted = <<>>
  /\ invoked = {}

\* The page, or a frame in it, posts a message on the window.
PagePostUpTo(n) ==
  /\ ~MidDelivery
  /\ PagePosts < n
  /\ \E d \in Malformed \cup Requests, o \in Origins :
       events' = Append(events, [data |-> d, origin |-> o, from |-> "page"])
  /\ runs' = Append(runs, <<>>)
  /\ UNCHANGED <<store, listeners, next, posted, invoked>>

PagePost == PagePostUpTo(MaxMsgs)

\* lines 61-63: window.addEventListener with a function created by this call
\* of Proxy.start adds a listener; the window dispatches an event to every
\* listener registered, and none is ever removed.
AddListener(n) == n + 1
TargetsMutant(n) == 1
Targets(n) == n

\* The window delivers its oldest undelivered event to the next listener
\* (lines 61-63, 15-26): the listener runs to its first await.
Deliver ==
  /\ next <= Len(events)
  /\ LET l == Len(runs[next]) + 1 IN
       /\ Apply(next, l, Receive(events[next], NewRun))
       /\ next' = IF l >= Targets(listeners) THEN next + 1 ELSE next
  /\ UNCHANGED <<store, listeners>>

\* line 15: each invocation of the async listener is a promise chain of its
\* own; its continuation runs when its own await has settled, whatever the
\* state of the other invocations (there is no queue of Requests).
ReadyMutant(i, l) ==
  \A k \in 1..(i - 1) : \A m \in 1..Len(runs[k]) : runs[k][m].pc \notin {"lookup", "calling"}
Ready(i, l) == TRUE

\* approvedOriginsStore.get resolves with what the store holds (line 26).
LookupResolveOf(i, l) ==
  /\ ~MidDelivery
  /\ runs[i][l].pc = "lookup"
  /\ Ready(i, l)
  /\ Apply(i, l, Admit(events[i], runs[i][l], ApprovedOrigins(store)))
  /\ store' = StoreAfterGet(store)
  /\ UNCHANGED <<listeners, next>>

LookupResolve ==
  \E i \in 1..Len(runs) : \E l \in 1..Len(runs[i]) : LookupResolveOf(i, l)

\* approvedOriginsStore.get rejects: the await at line 26 throws outside the
\* try block and the listener's promise rejects.
LookupRejectOf(i, l) ==
  /\ ~MidDelivery
  /\ runs[i][l].pc = "lookup"
  /\ Ready(i, l)
  /\ Apply(i, l, LookupFailed(events[i], runs[i][l]))
  /\ UNCHANGED <<store, listeners, next>>

LookupReject ==
  \E i \in 1..Len(runs) : \E l \in 1..Len(runs[i]) : LookupRejectOf(i, l)

\* The capability call resolves (line 37).
CallResolveOf(i, l, v) ==
  /\ ~MidDelivery
  /\ runs[i][l].pc = "calling"
  /\ Ready(i, l)
  /\ Apply(i, l, Resolved(events[i].data, runs[i][l], v))
  /\ UNCHANGED <<store, listeners, next>>

CallResolve ==
  \E i \in 1..Len(runs) : \E l \in 1..Len(runs[i]) : \E v \in Values :
    CallResolveOf(i, l, v)

\* The capability call throws or rejects (lines 37, 47).
CallRejectOf(i, l, v) ==
  /\ ~MidDelivery
  /\ runs[i][l].pc = "calling"
  /\ Ready(i, l)
  /\ Apply(i, l, Rejected(events[i].data, runs[i][l], v))
  /\ UNCHANGED <<store, listeners, next>>

CallReject ==
  \E i \in 1..Len(runs) : \E l \in 1..Len(runs[i]) : \E v \in Values :
    CallRejectOf(i, l, v)

\* The approval flow outside the Proxy approves or revokes an origin.
Approve ==
  /\ \E o \in Approvable :
       /\ o \notin ApprovedOrigins(store)
       /\ store' = [has |-> TRUE, val |-> store.val \cup {o}]
  /\ UNCHANGED <<listeners, events, next, runs, posted, invoked>>

Revoke ==
  /\ \E o \in Approvable :
       /\ store.has /\ o \in store.val
       /\ store' = [has |-> TRUE, val |-> store.val \ {o}]
  /\ UNCHANGED <<listeners, events, next, runs, posted, invoked>>

Next ==
  \/ PagePost
  \/ Deliver
  \/ LookupResolve
  \/ LookupReject
  \/ CallResolve
  \/ CallReject
  \/ Approve
  \/ Revoke

Spec == Init /\ [][Next]_vars

\* Proxy.start is called again (lines 11-15).
Start ==
  /\ ~MidDelivery
  /\ listeners < MaxStarts
  /\ listeners' = AddListener(listeners)
  /\ UNCHANGED <<store, events, next, runs, posted, invoked>>

PagePostStart == PagePostUpTo(MaxMsgsStart)

NextStart ==
  \/ Start
  \/ PagePostStart
  \/ Deliver
  \/ LookupResolve
  \/ LookupReject
  \/ CallResolve
  \/ CallReject
  \/ Approve
  \/ Revoke

\* The Proxy when Proxy.start may be called more than once.
SpecStart == Init /\ [][NextStart]_vars

TypeOK ==
  /\ store.has \in BOOLEAN /\ store.val \subseteq Origins
  /\ listeners >= 1
  /\ Len(runs) = Len(events)
  /\ next \in 1..(Len(events) + 1)
  /\ \A i \in 1..Len(runs) : Len(runs[i]) <= listeners

----------------------------------------------------------------------------
(* Vocabulary of the properties, read off the events and the log alone *)

\* Every listener invocation so far: <<event, listener>>.
RunIds == UNION { { <<i, l>> : l \in 1..Len(runs[i]) } : i \in 1..Len(runs) }
RunOf(h) == runs[h[1]][h[2]]
DataOf(h) == events[h[1]].data
OriginOf(h) == events[h[1]].origin

\* The event carries a Request / a Request for connect or isConnected.
IsRequest(h) == "type" \in DOMAIN DataOf(h) /\ DataOf(h).type = "request"
IsBootstrapRequest(h) == IsRequest(h) /\ DataOf(h).method \in {"connect", "isConnected"}

\* The Responses invocation h posted, as indexes of the log.
PostedBy(h) == { k \in 1..Len(posted) : posted[k].by = h }

\* Invocation h posted exactly one Response and it carries the Request's id.
OneResponse(h) ==
  /\ Cardinality(PostedBy(h)) = 1
  /\ \A k \in PostedBy(h) : posted[k].msg.type = "response" /\ posted[k].msg.id = DataOf(h).id

\* Invocation h reached the try block (line 32) and has left the listener.
Finished(h) == RunOf(h).pc \in {"done", "crashed"}

----------------------------------------------------------------------------
\* C1: every Request that passes admission and reaches dispatch produces
\* exactly one Response with its own id, whether the capability call succeeds
\* or fails: once its invocation has left the listener, one Response of its id
\* has been posted by it.
C1_OneResponsePerDispatchedRequest ==
  \A h \in RunIds : IsRequest(h) /\ Finished(h) => OneResponse(h)

\* C2: the capability object is invoked for a Request other than connect and
\* isConnected only after its origin was found in the approved origins read
\* for that Request.
C2_InvokedOnlyWhenAdmitted ==
  \A h \in invoked :
    /\ IsRequest(h)
    /\ \/ IsBootstrapRequest(h)
       \/ RunOf(h).read /\ RunOf(h).found = "yes"

C2_Witness ==
  \E h \in invoked : ~IsBootstrapRequest(h) /\ RunOf(h).found = "yes"

\* C3: a Request whose method is not connect or isConnected and whose origin
\* was not in the approved origins gets no Response and the capability object
\* is not called for it, whether or not the method exists.
C3_DroppedNeverAnswered ==
  \A h \in RunIds :
    IsRequest(h) /\ ~IsBootstrapRequest(h) /\ RunOf(h).found = "no"
      => PostedBy(h) = {} /\ h \notin invoked /\ RunOf(h).pc = "dropped"

C3_Witness ==
  \E h \in RunIds :
    /\ IsRequest(h) /\ RunOf(h).found = "no" /\ DataOf(h).method = "doesNotExist"
    /\ \E g \in RunIds : g[1] > h[1] /\ RunOf(g).pc = "done"

\* C4 as stated: a Request whose method exists and resolves gets exactly one
\* Response, of its id, with result.return the resolved value.
C4_ResolvedValueReturned ==
  \A h \in RunIds :
    RunOf(h).settled = "resolved"
      => /\ OneResponse(h)
         /\ \A k \in PostedBy(h) : posted[k].msg.result = [return |-> RunOf(h).value]

\* C4 amended: the same when the resolved value can be structured-cloned;
\* when it cannot, the one Response of that id carries in result.error the
\* DataCloneError that posting raised.
C4_ResolvedValueReturnedIfCloneable ==
  \A h \in RunIds :
    RunOf(h).settled = "resolved"
      => /\ OneResponse(h)
         /\ \A k \in PostedBy(h) :
              posted[k].msg.result =
                IF RunOf(h).value # "function"
                  THEN [return |-> RunOf(h).value]
                  ELSE [error |-> "DataCloneError"]

C4_Witness ==
  /\ \E h \in RunIds :
       RunOf(h).settled = "resolved" /\ RunOf(h).value = "data" /\ RunOf(h).found = "yes"
  /\ \E h \in RunIds : RunOf(h).settled = "resolved" /\ RunOf(h).value = "function"

\* C5: a Request past admission that names no method of the capability
\* object gets exactly one Response, of its id, whose result holds error (the
\* "not found" message) and no return, and no capability method is called.
C5_UnknownMethodAnswered ==
  \A h \in RunIds :
    /\ IsRequest(h)
    /\ IsBootstrapRequest(h) \/ RunOf(h).found = "yes"
    /\ NamadaTypeof(DataOf(h).method) # "function"
    => /\ OneResponse(h)
       /\ \A k \in PostedBy(h) :
            /\ DOMAIN posted[k].msg.result = {"error"}
            /\ posted[k].msg.result.error = DataOf(h).method \o " not found!"
       /\ h \notin invoked

C5_Witness ==
  /\ \E h \in RunIds : DataOf(h) = [type |-> "request", id |-> "2", method |-> "doesNotExist"]
                         /\ RunOf(h).found = "yes"
  /\ \E h \in RunIds : IsRequest(h) /\ DataOf(h).method = "_version" /\ RunOf(h).found = "yes"

C7_MalformedIgnored ==
  \A h \in RunIds :
    ~IsRequest(h)
      => /\ RunOf(h).pc = "ignored"
         /\ PostedBy(h) = {}
         /\ ~RunOf(h).read
         /\ h \notin invoked

C7_Witness ==
  /\ \E h \in RunIds : DataOf(h) = [prim |-> "null"]
  /\ \E h \in RunIds : DataOf(h) = [type |-> "other", id |-> "1", method |-> "connect"]

\* C8: a Request for connect or isConnected is dispatched to the capability
\* object without any admission check and, once its invocation has left the
\* listener, has exactly one Response, for any origin and approval set.
C8_BootstrapAnswered ==
  \A h \in RunIds :
    IsBootstrapRequest(h)
      => /\ h \in invoked
         /\ ~RunOf(h).read
         /\ Finished(h) => OneResponse(h)

\* C9: the result of every Response posted holds exactly one of return and
\* error.
C9_ReturnXorError ==
  \A k \in 1..Len(posted) :
    DOMAIN posted[k].msg.result \in { {"return"}, {"error"} }

C9_Witness ==
  /\ \E k \in 1..Len(posted) : posted[k].msg.result = [return |-> Undefined]
  /\ \E k \in 1..Len(posted) : "error" \in DOMAIN posted[k].msg.result

\* C10: every Request other than connect and isConnected reads the approval
\* store itself, and is admitted exactly when its origin is in the store at
\* the moment its own lookup resolves.
C10_EveryRequestReads ==
  \A h \in RunIds : IsRequest(h) /\ ~IsBootstrapRequest(h) => RunOf(h).read

\* C10: every such Request reads the store, and each lookup that resolves
\* admits exactly when the store then holds the origin.
C10_AdmissionFromFreshRead ==
  /\ []C10_EveryRequestReads
  /\ [][\A i \in 1..Len(runs) : \A l \in 1..Len(runs[i]) :
         runs[i][l].pc = "lookup" /\ runs'[i][l].pc \notin {"lookup", "lookupFailed"}
           => /\ runs'[i][l].pc \in {"calling", "done", "crashed"}
                   <=> (store.has /\ events[i].origin \in store.val)
              /\ runs'[i][l].pc = "dropped"
                   <=> ~(store.has /\ events[i].origin \in store.val)]_vars

\* An origin dropped, then approved, is admitted; an origin admitted, then
\* revoked, is dropped.
C10_Witness ==
  \E g, h \in RunIds :
    /\ g[1] < h[1] /\ OriginOf(g) = OriginOf(h)
    /\ RunOf(g).found = "no" /\ RunOf(h).found = "yes"

C10_WitnessRevoked ==
  \E g, h \in RunIds :
    /\ g[1] < h[1] /\ OriginOf(g) = OriginOf(h)
    /\ RunOf(g).found = "yes" /\ RunOf(h).found = "no"

----------------------------------------------------------------------------
\* C11: every Response is posted for the window's own origin, whatever the
\* origin of the Request it answers; never for another origin or for "*".
C11_PostedToOwnOrigin ==
  \A k \in 1..Len(posted) :
    posted[k].targetOrigin = WindowOrigin /\ posted[k].targetOrigin # "*"

C11_Witness ==
  \E k \in 1..Len(posted) :
    /\ events[posted[k].by[1]].origin # WindowOrigin
    /\ posted[k].targetOrigin = WindowOrigin

----------------------------------------------------------------------------
\* C12: Requests are processed independently.  The continuation of an
\* invocation whose lookup or capability call is pending can always run,
\* whatever the other invocations are doing (pending, failed, never
\* completing); a step of one invocation changes no other invocation and no
\* Response already posted; and the Response is posted in the very step in
\* which the invocation's own dispatch completes.
C12_ContinuationEnabled ==
  \A h \in RunIds :
    /\ RunOf(h).pc = "lookup" /\ ~MidDelivery
         => ENABLED LookupResolveOf(h[1], h[2])
    /\ RunOf(h).pc = "calling" /\ ~MidDelivery
         => \A v \in Values : /\ ENABLED CallResolveOf(h[1], h[2], v)
                              /\ ENABLED CallRejectOf(h[1], h[2], v)

C12_StepOfOne ==
  /\ \A g, h \in RunIds :
       runs'[g[1]][g[2]] # RunOf(g) /\ runs'[h[1]][h[2]] # RunOf(h) => g = h
  /\ \A k \in 1..Len(posted) : posted'[k] = posted[k]
  /\ \A k \in (Len(posted) + 1)..Len(posted') :
       /\ posted'[k].by \in RunIds
       /\ runs'[posted'[k].by[1]][posted'[k].by[2]] # RunOf(posted'[k].by)
       /\ posted'[k].msg.id = DataOf(posted'[k].by).id
  /\ \A h \in RunIds :
       RunOf(h).pc = "calling" /\ runs'[h[1]][h[2]].pc = "done"
         => Len(posted') = Len(posted) + 1 /\ posted'[Len(posted')].by = h

\* C12: both parts, in every reachable state and every step.
C12_Independent ==
  /\ []C12_ContinuationEnabled
  /\ [][C12_StepOfOne]_vars

\* A Request that arrived later has its Response while an earlier one is
\* still waiting.
C12_Witness ==
  \E g, h \in RunIds :
    /\ g[1] < h[1] /\ IsRequest(g) /\ IsRequest(h)
    /\ RunOf(g).pc = "calling" /\ RunOf(h).settled # "none" /\ PostedBy(h) # {}

----------------------------------------------------------------------------
\* Invocation h passed admission: a Request for connect or isConnected, or
\* one whose origin the lookup found.
Admitted(h) == IsRequest(h) /\ (IsBootstrapRequest(h) \/ RunOf(h).found = "yes")

\* C13: the Proxy does not deduplicate correlation ids: two admitted
\* Requests with the same id are each dispatched and, once they have left the
\* listener, each has its own Response with that id, so that two Responses
\* carry the id.
C13_CollidingIdsBothAnswered ==
  \A g, h \in RunIds :
    /\ g[1] # h[1] /\ Admitted(g) /\ Admitted(h) /\ DataOf(g).id = DataOf(h).id
    /\ Finished(g) /\ Finished(h)
    => /\ OneResponse(g) /\ OneResponse(h)
       /\ Cardinality({ k \in 1..Len(posted) : posted[k].msg.id = DataOf(g).id }) >= 2

\* The part of C13 that holds: a second Request with an id already in use is
\* handled like any other, and two invocations that both post give two
\* Responses with the one id.
C13_NoDeduplication ==
  \A g, h \in RunIds :
    /\ g[1] # h[1] /\ Admitted(g) /\ Admitted(h) /\ DataOf(g).id = DataOf(h).id
    /\ RunOf(g).pc = "done" /\ RunOf(h).pc = "done"
    => /\ OneResponse(g) /\ OneResponse(h)
       /\ Cardinality({ k \in 1..Len(posted) : posted[k].msg.id = DataOf(g).id }) >= 2

C13_NoDeduplicationReached ==
  \E g, h \in RunIds :
    /\ g[1] # h[1] /\ Admitted(g) /\ Admitted(h) /\ DataOf(g).id = DataOf(h).id
    /\ RunOf(g).pc = "done" /\ RunOf(h).pc = "done"

----------------------------------------------------------------------------
\* C14: the Proxy only reads the approval store: every step in which a
\* message arrives or an invocation moves (ignored, dropped, admitted,
\* answered, failed) leaves the store as it was; only the approval flow
\* changes it.
C14_StoreOnlyRead ==
  [][<<events, next, runs, posted, invoked>>' # <<events, next, runs, posted, invoked>>
       => store' = store]_vars

C14_Witness ==
  /\ store = [has |-> FALSE, val |-> {}]
  /\ \E h \in RunIds : RunOf(h).found = "no"
  /\ \E h \in RunIds : IsBootstrapRequest(h) /\ RunOf(h).pc = "done"

----------------------------------------------------------------------------
\* The events the Proxy's own posts put on the window, and the Request-tagged
\* events the listener has received.
ProxyEvents == { i \in 1..Len(events) : events[i].from = "proxy" }
RequestsReceived ==
  { i \in 1..Len(events) :
      /\ Len(runs[i]) > 0
      /\ "type" \in DOMAIN events[i].data /\ events[i].data.type = "request" }

\* C15: every Response is posted on the window the listener listens on and
\* so comes back to the listener as an event of the window's own origin; the
\* listener ignores it (its type is not "request"): no Response answers a
\* Response, and there are never more Responses than Request-tagged messages
\* received.
C15_ResponsesComeBackIgnored ==
  /\ Cardinality(ProxyEvents) = Len(posted)
  /\ \A k \in 1..Len(posted) :
       /\ \E i \in ProxyEvents :
            events[i].data = posted[k].msg /\ events[i].origin = WindowOrigin
       /\ posted[k].by[1] \notin ProxyEvents
  /\ \A h \in RunIds :
       h[1] \in ProxyEvents
         => RunOf(h).pc = "ignored" /\ PostedBy(h) = {} /\ h \notin invoked
  /\ Len(posted) <= Cardinality(RequestsReceived)

C15_Witness ==
  \E h \in RunIds :
    /\ h[1] \in ProxyEvents /\ RunOf(h).pc = "ignored"
    /\ "error" \in DOMAIN DataOf(h).result
    /\ \E g \in RunIds : g[1] \in ProxyEvents /\ "return" \in DOMAIN DataOf(g).result

----------------------------------------------------------------------------
\* C16: when the approval-store lookup of a Request rejects, the capability
\* object is not called for it and no Response is posted for it: the listener
\* is left by the exception, before the try block.
C16_LookupFailureUnreported ==
  \A h \in RunIds :
    RunOf(h).found = "failed"
      => /\ h \notin invoked
         /\ PostedBy(h) = {}
         /\ RunOf(h).pc = "lookupFailed"
         /\ RunOf(h).settled = "none"

C16_Witness ==
  \E h \in RunIds :
    /\ IsRequest(h) /\ DataOf(h).method = "signTx" /\ RunOf(h).found = "failed"
    /\ store.has /\ OriginOf(h) \in store.val
    /\ \E g \in RunIds : g[1] > h[1] /\ RunOf(g).pc = "done"

----------------------------------------------------------------------------
\* C17: admission fails closed.  A lookup that resolves while the store
\* holds no value under the approved-origins key drops the Request, whatever
\* its origin: no Response, no call of the capability object.
C17_MissingKeyDropsAll ==
  [][\A i \in 1..Len(runs) : \A l \in 1..Len(runs[i]) :
       /\ ~store.has
       /\ runs[i][l].pc = "lookup" /\ runs'[i][l].pc \notin {"lookup", "lookupFailed"}
       => /\ runs'[i][l].pc = "dropped"
          /\ posted' = posted
          /\ invoked' = invoked]_vars

C17_Witness ==
  /\ ~store.has
  /\ \E g, h \in RunIds :
       /\ OriginOf(g) = WindowOrigin /\ OriginOf(h) # WindowOrigin
       /\ RunOf(g).pc = "dropped" /\ RunOf(h).pc = "dropped"
       /\ DataOf(g).method = "signTx"

----------------------------------------------------------------------------
\* The Responses posted for events[i], by any listener.
ResponsesTo(i) == { k \in 1..Len(posted) : posted[k].by[1] = i }
Posters(i) == { l \in 1..Len(runs[i]) : runs[i][l].pc = "done" }

\* C18 as stated, for the Requests whose every invocation posted: the
\* number of Responses for one admitted Request equals the number of calls of
\* Proxy.start.
C18_ResponsesEqualStarts ==
  \A i \in 1..(next - 1) :
    /\ Len(runs[i]) > 0
    /\ \A l \in 1..Len(runs[i]) : Admitted(<<i, l>>) /\ RunOf(<<i, l>>).pc = "done"
    => Cardinality(ResponsesTo(i)) = listeners

\* C18 amended: every call of Proxy.start adds a listener and none is
\* removed; a Request is handled once by each listener registered when it is
\* delivered, each handling posts at most one Response, and so the Responses
\* for a Request are as many as its handlings that posted, at most the number
\* of calls of Proxy.start made before its delivery.
C18_OnePerListenerInv ==
  \A i \in 1..Len(events) :
    /\ Len(runs[i]) <= listeners
    /\ \A l \in 1..Len(runs[i]) :
         /\ Cardinality(PostedBy(<<i, l>>)) <= 1
         /\ RunOf(<<i, l>>).pc = "done" => OneResponse(<<i, l>>)
    /\ Cardinality(ResponsesTo(i)) = Cardinality(Posters(i))

\* C18 amended: the count in every state, listeners only ever added, and
\* every listener registered at the delivery handling the event.
C18_OnePerListener ==
  /\ []C18_OnePerListenerInv
  /\ [][listeners' >= listeners]_vars
  /\ [][next' = next + 1 => Len(runs'[next]) = listeners]_vars

C18_Witness ==
  \E i \in 1..Len(events) :
    /\ listeners = 2 /\ Cardinality(ResponsesTo(i)) = 2
    /\ events[i].data.method = "signTx"

----------------------------------------------------------------------------
\* C19: one handling of a Request never posts both a success Response and
\* an error Response.  An error Response is posted only when the method
\* lookup threw, the capability call threw, or posting the success Response
\* threw; in the last case the error Response, with the same id and the
\* posting failure as error, stands in place of the success Response.
C19_SuccessXorError ==
  \A h \in RunIds :
    /\ Cardinality(PostedBy(h)) <= 1
    /\ \A k \in PostedBy(h) :
         /\ posted[k].msg.id = DataOf(h).id
         /\ "error" \in DOMAIN posted[k].msg.result
              => \/ RunOf(h).settled = "none"
                      /\ NamadaTypeof(DataOf(h).method) # "function"
                 \/ RunOf(h).settled = "rejected"
                 \/ /\ RunOf(h).settled = "resolved" /\ RunOf(h).value = "function"
                    /\ posted[k].msg.result.error = "DataCloneError"
         /\ "return" \in DOMAIN posted[k].msg.result
              => RunOf(h).settled = "resolved" /\ RunOf(h).value # "function"
    /\ RunOf(h).settled = "resolved" /\ RunOf(h).value = "function"
         => /\ OneResponse(h)
            /\ \A k \in PostedBy(h) : DOMAIN posted[k].msg.result = {"error"}

C19_Witness ==
  /\ \E h \in RunIds :
       /\ RunOf(h).settled = "resolved" /\ RunOf(h).value = "function"
       /\ \E k \in PostedBy(h) : posted[k].msg.result = [error |-> "DataCloneError"]
  /\ \E h \in RunIds :
       \E k \in PostedBy(h) : posted[k].msg.result = [return |-> "data"]
====
